---------------------------- MODULE Spec2Model ----------------------------
(***************************************************************************)
(* Timeline Generation Engine of the study planner                         *)
(* (src/app/timeline/core.py, class TimelineEngine).                       *)
(*                                                                         *)
(* Time.  A datetime is an integer: seconds since 00:00 UTC of the         *)
(* calendar day on which the run starts (day 0).  A float number of hours  *)
(* is held in seconds as well (1.0 h = 3600), so round(x, 2) rounds to a   *)
(* multiple of 36 s and round(x, 1) to a multiple of 360 s.  The efforts   *)
(* drawn below are whole minutes, for which effort / 3 is exact.           *)
(***************************************************************************)
EXTENDS Integers, Sequences, FiniteSets, TLC

VARIABLES
    tasks,              \* input: List[Task]
    busy_blocks,        \* input: List[BusyBlock]
    preferences,        \* input: UserPreferences
    now,                \* the wall clock read by datetime.now(tz=tz.UTC)
    ticks,              \* how often the wall clock has advanced
    pc,                 \* position of generate_timeline
    schedulable_tasks,  \* indices into tasks kept by _prepare_tasks
    busy_intervals,     \* result of _build_busy_intervals
    scores,             \* priority_score of schedulable_tasks[1..Len(scores)]
    prioritized_tasks,  \* indices into tasks, in processing order
    ti,                 \* position of the for loop over prioritized_tasks
    remaining_effort,   \* dict: task.id or task.title -> hours left
    call,               \* the frame of the running _schedule_task call
    schedule_blocks,    \* the blocks placed so far / returned
    metadata,           \* the metadata dict
    run,                \* number of the current generate_timeline call
    first               \* what the first call returned, once it is over

vars == <<tasks, busy_blocks, preferences, now, ticks, pc, schedulable_tasks,
          busy_intervals, scores, prioritized_tasks, ti, remaining_effort,
          call, schedule_blocks, metadata, run, first>>

inputs == <<tasks, busy_blocks, preferences>>

-----------------------------------------------------------------------------
(* Units and arithmetic *)

SecondsPerMinute == 60
SecondsPerHour == 3600
SecondsPerDay == 86400

Min(a, b) == IF a <= b THEN a ELSE b
Max(a, b) == IF a >= b THEN a ELSE b

Hours(h) == h * SecondsPerHour
Minutes(m) == m * SecondsPerMinute

\* datetime.date(): the calendar day of an instant
DateOf(t) == t \div SecondsPerDay

\* the instant hh:mm on calendar day d
At(d, hh, mm) == d * SecondsPerDay + Hours(hh) + Minutes(mm)

\* datetime.replace(hour=0, minute=0, second=0, microsecond=0)
Midnight(t) == DateOf(t) * SecondsPerDay

\* Python's round(): the integer nearest to x / d, ties to even
RoundQuot(x, d) ==
    LET q == x \div d
        r == x % d
    IN  IF 2 * r < d THEN q
        ELSE IF 2 * r > d THEN q + 1
        ELSE IF q % 2 = 0 THEN q ELSE q + 1

RoundTo(x, unit) == RoundQuot(x, unit) * unit

\* round(x, 2) and round(x, 1) of a number of hours
Round2(x) == RoundTo(x, 36)
Round1(x) == RoundTo(x, 360)

\* math.ceil(a / b) for b > 0
CeilDiv(a, b) == (a + b - 1) \div b

-----------------------------------------------------------------------------
(* The records of src/app/models.py                                        *)
(*                                                                         *)
(* Task: id ("" for None), title, due_date, effort_hours, weight,          *)
(* completed.  An Optional field is a record [set |-> FALSE] when it is    *)
(* None.  due_date is a string in the source; here it is what isoparse     *)
(* makes of it: kind "date" is a date or timestamp without UTC offset (a   *)
(* naive datetime), kind "aware" a timestamp with an offset of zero, kind  *)
(* "bad" a non-empty string on which isoparse raises ValueError.           *)

None == [set |-> FALSE]
Some(v) == [set |-> TRUE, v |-> v]

NaiveDue(d) == [set |-> TRUE, kind |-> "date", at |-> At(d, 0, 0)]
AwareDue(d, hh) == [set |-> TRUE, kind |-> "aware", at |-> At(d, hh, 0)]
BadDue == [set |-> TRUE, kind |-> "bad", at |-> 0]

Task(id, title, due_date, effort_hours, weight, completed) ==
    [id |-> id, title |-> title, due_date |-> due_date,
     effort_hours |-> effort_hours, weight |-> weight, completed |-> completed]

\* BusyBlock: start and end as isoparse reads them; parses is FALSE when
\* isoparse raises on one of the two strings
BusyBlock(start, end, parses) == [start |-> start, end |-> end, parses |-> parses]

\* UserPreferences (time of day as <<hour, minute>>, max_hours_per_day in
\* seconds)
UserPreferences(max_hours, start_time, end_time, break_minutes, min_minutes) ==
    [max_hours_per_day |-> max_hours,
     preferred_start_time |-> start_time,
     preferred_end_time |-> end_time,
     break_duration_minutes |-> break_minutes,
     min_study_block_minutes |-> min_minutes]

\* ScheduleBlock; task is the index of the input task the block was made for
\* (the source keeps task_id and task_title only)
ScheduleBlock(task, task_id, task_title, start, end, duration_hours, reason) ==
    [task |-> task, task_id |-> task_id, task_title |-> task_title,
     start |-> start, end |-> end, duration_hours |-> duration_hours,
     reason |-> reason]

\* task.id or task.title
TaskKey(t) == IF t.id # "" THEN t.id ELSE t.title

-----------------------------------------------------------------------------
(* TimelineEngine.__init__ *)

start_hour == preferences.preferred_start_time[1]
start_minute == preferences.preferred_start_time[2]
end_hour == preferences.preferred_end_time[1]
end_minute == preferences.preferred_end_time[2]

-----------------------------------------------------------------------------
(* TimelineEngine._prepare_tasks *)

\* a filter that forgets the completed flag
Schedulable_IgnoresCompleted(t) ==
    /\ t.due_date.set
    /\ t.effort_hours.set
    /\ t.effort_hours.v # 0
    /\ t.effort_hours.v > 0

Schedulable(t) ==
    /\ ~t.completed
    /\ t.due_date.set
    /\ t.effort_hours.set
    /\ t.effort_hours.v # 0
    /\ t.effort_hours.v > 0

RECURSIVE PrepareFrom(_, _)
PrepareFrom(ts, i) ==
    IF i > Len(ts) THEN <<>>
    ELSE IF Schedulable(ts[i]) THEN <<i>> \o PrepareFrom(ts, i + 1)
    ELSE PrepareFrom(ts, i + 1)

_prepare_tasks(ts) == PrepareFrom(ts, 1)

-----------------------------------------------------------------------------
(* TimelineEngine._prioritize_tasks *)

\* A score is 0 (the except branch) or
\*   (100 / (days_until + 1)) * 0.6 + weight_score * 0.3 + effort_score * 0.1
\* with effort_score = effort * 0.5.  It is kept as its parts and compared
\* exactly: 72000 * score = ScoreNum / ScoreDen, effort in seconds.
ZeroScore == [zero |-> TRUE]

priority_score(task, clock) ==
    IF task.due_date.kind # "aware"
    THEN ZeroScore          \* isoparse raises ValueError, or naive due -
                            \* aware today raises TypeError
    ELSE LET days_until == Max((task.due_date.at - clock) \div SecondsPerDay, 0)
             weight == IF task.weight.set /\ task.weight.v # 0
                       THEN task.weight.v ELSE 10
             effort == IF task.effort_hours.set /\ task.effort_hours.v # 0
                       THEN task.effort_hours.v ELSE Hours(3)
         IN  [zero |-> FALSE, days_until |-> days_until,
              weight_score |-> weight * 3, effort |-> effort]

\* urgency = 100 * (days_until + 1): the later deadline is the more urgent
ScoreNum_UrgencyGrows(s) ==
    IF s.zero THEN 0
    ELSE (4320000 * (s.days_until + 1) + 21600 * s.weight_score + s.effort)
         * (s.days_until + 1)

ScoreNum(s) ==
    IF s.zero THEN 0
    ELSE 4320000 + (21600 * s.weight_score + s.effort) * (s.days_until + 1)

ScoreDen(s) == IF s.zero THEN 1 ELSE s.days_until + 1

ScoreLess(a, b) == ScoreNum(a) * ScoreDen(b) < ScoreNum(b) * ScoreDen(a)

\* an insertion that puts an element before the elements of equal key
RECURSIVE InsertByScore_Unstable(_, _)
InsertByScore_Unstable(s, e) ==
    IF s = <<>> THEN <<e>>
    ELSE IF ~ScoreLess(e.score, Head(s).score) THEN <<e>> \o s
    ELSE <<Head(s)>> \o InsertByScore_Unstable(Tail(s), e)

\* sorted(..., reverse=True) is stable: an element goes behind every element
\* whose key is not smaller
RECURSIVE InsertByScore(_, _)
InsertByScore(s, e) ==
    IF s = <<>> THEN <<e>>
    ELSE IF ScoreLess(Head(s).score, e.score) THEN <<e>> \o s
    ELSE <<Head(s)>> \o InsertByScore(Tail(s), e)

RECURSIVE SortByScore(_)
SortByScore(s) ==
    IF s = <<>> THEN <<>>
    ELSE InsertByScore(SortByScore(SubSeq(s, 1, Len(s) - 1)), s[Len(s)])

\* the tasks ts (indices) with their keys ks, highest key first
_prioritize_tasks(ts, ks) ==
    LET keyed == [i \in 1..Len(ts) |-> [task |-> ts[i], score |-> ks[i]]]
        sorted == SortByScore(keyed)
    IN  [i \in 1..Len(ts) |-> sorted[i].task]

-----------------------------------------------------------------------------
(* TimelineEngine._build_busy_intervals *)

RECURSIVE _build_busy_intervals(_)
_build_busy_intervals(bs) ==
    IF bs = <<>> THEN <<>>
    ELSE IF Head(bs).parses
         THEN <<<<Head(bs).start, Head(bs).end>>>> \o _build_busy_intervals(Tail(bs))
         ELSE _build_busy_intervals(Tail(bs))

-----------------------------------------------------------------------------
(* TimelineEngine._get_day_hours_used *)

RECURSIVE _get_day_hours_used(_, _)
_get_day_hours_used(date, block_list) ==
    IF block_list = <<>> THEN 0
    ELSE (IF DateOf(Head(block_list).start) = DateOf(date)
          THEN Head(block_list).duration_hours ELSE 0)
         + _get_day_hours_used(date, Tail(block_list))

-----------------------------------------------------------------------------
(* TimelineEngine._find_free_slot *)

NoSlot == [found |-> FALSE]
Slot(s, e) == [found |-> TRUE, start |-> s, end |-> e]

\* the calendar busy blocks of the day, clipped to the working window
RECURSIVE CalendarBusy(_, _, _, _)
CalendarBusy(day, day_start, day_end, intervals) ==
    IF intervals = <<>> THEN <<>>
    ELSE LET start == Head(intervals)[1]
             end == Head(intervals)[2]
             rest == CalendarBusy(day, day_start, day_end, Tail(intervals))
         IN  IF DateOf(start) = DateOf(day) \/ DateOf(end) = DateOf(day)
             THEN <<<<Max(start, day_start), Min(end, day_end)>>>> \o rest
             ELSE rest

\* the blocks already scheduled on the day, each with the break after it
RECURSIVE ScheduledBusy(_, _)
ScheduledBusy(day, existing_blocks) ==
    IF existing_blocks = <<>> THEN <<>>
    ELSE LET block == Head(existing_blocks)
             break_end == block.end + Minutes(preferences.break_duration_minutes)
             rest == ScheduledBusy(day, Tail(existing_blocks))
         IN  IF DateOf(block.start) = DateOf(day)
             THEN <<<<block.start, break_end>>>> \o rest
             ELSE rest

\* all_busy.sort(key=lambda x: x[0])
RECURSIVE InsertByStart(_, _)
InsertByStart(s, e) ==
    IF s = <<>> THEN <<e>>
    ELSE IF e[1] < Head(s)[1] THEN <<e>> \o s
    ELSE <<Head(s)>> \o InsertByStart(Tail(s), e)

RECURSIVE SortByStart(_)
SortByStart(s) ==
    IF s = <<>> THEN <<>>
    ELSE InsertByStart(SortByStart(SubSeq(s, 1, Len(s) - 1)), s[Len(s)])

\* a sweep that only tries the gap behind the last busy period
RECURSIVE FindGap_FinalGapOnly(_, _, _, _)
FindGap_FinalGapOnly(all_busy, current_time, duration_delta, day_end) ==
    IF all_busy = <<>>
    THEN IF day_end - current_time >= duration_delta
         THEN [found |-> TRUE, start |-> current_time,
               end |-> current_time + duration_delta]
         ELSE [found |-> FALSE]
    ELSE FindGap_FinalGapOnly(Tail(all_busy),
                              IF current_time >= Head(all_busy)[2]
                              THEN current_time ELSE Head(all_busy)[2],
                              duration_delta, day_end)

\* the sweep over the sorted busy periods
RECURSIVE FindGap(_, _, _, _)
FindGap(all_busy, current_time, duration_delta, day_end) ==
    IF all_busy = <<>>
    THEN IF day_end - current_time >= duration_delta
         THEN Slot(current_time, current_time + duration_delta)
         ELSE NoSlot
    ELSE LET busy_start == Head(all_busy)[1]
             busy_end == Head(all_busy)[2]
         IN  IF busy_start - current_time >= duration_delta
             THEN Slot(current_time, current_time + duration_delta)
             ELSE FindGap(Tail(all_busy), Max(current_time, busy_end),
                          duration_delta, day_end)

AllBusy(day, day_start, day_end, intervals, existing_blocks) ==
    SortByStart(CalendarBusy(day, day_start, day_end, intervals)
                \o ScheduledBusy(day, existing_blocks))

\* a search that accepts a duration of any length
_find_free_slot_NoMinimum(day, duration_hours, intervals, existing_blocks) ==
    LET day_start == Midnight(day) + Hours(start_hour) + Minutes(start_minute)
        day_end == Midnight(day) + Hours(end_hour) + Minutes(end_minute)
    IN  FindGap(AllBusy(day, day_start, day_end, intervals, existing_blocks),
                day_start, duration_hours, day_end)

_find_free_slot(day, duration_hours, intervals, existing_blocks) ==
    LET day_start == Midnight(day) + Hours(start_hour) + Minutes(start_minute)
        day_end == Midnight(day) + Hours(end_hour) + Minutes(end_minute)
        min_duration == Minutes(preferences.min_study_block_minutes)
    IN  IF duration_hours < min_duration THEN NoSlot
        ELSE FindGap(AllBusy(day, day_start, day_end, intervals, existing_blocks),
                     day_start, duration_hours, day_end)

-----------------------------------------------------------------------------
(* TimelineEngine._build_reason: the parts of the rationale string *)

_build_reason(task, session_num, total_sessions, days_until) ==
    [due |-> IF days_until <= 1 THEN "tomorrow"
             ELSE IF days_until <= 3 THEN "days" ELSE "",
     days |-> IF days_until > 1 /\ days_until <= 3 THEN days_until ELSE 0,
     grade |-> IF task.weight.set /\ task.weight.v # 0 /\ task.weight.v >= 20
               THEN task.weight.v ELSE 0,
     session |-> <<session_num, total_sessions>>,
     position |-> IF session_num = 1 THEN "first"
                  ELSE IF session_num = total_sessions THEN "final" ELSE ""]

-----------------------------------------------------------------------------
(* TimelineEngine._calculate_stats *)

BlockDays(blocks) == {DateOf(blocks[i].start) : i \in 1..Len(blocks)}

RECURSIVE SumDays(_, _)
SumDays(days, blocks) ==
    IF days = {} THEN 0
    ELSE LET d == CHOOSE x \in days : TRUE
         IN  _get_day_hours_used(d * SecondsPerDay, blocks)
             + SumDays(days \ {d}, blocks)

_calculate_stats(blocks) ==
    IF blocks = <<>> THEN <<>>
    ELSE LET days == BlockDays(blocks)
             daily_hours(d) == _get_day_hours_used(d * SecondsPerDay, blocks)
             peak == CHOOSE h \in {daily_hours(d) : d \in days} :
                        \A d \in days : daily_hours(d) <= h
             \* max() keeps the first maximum, in the order of the dict
             busiest == CHOOSE d \in days :
                           /\ daily_hours(d) = peak
                           /\ \A e \in days : daily_hours(e) = peak =>
                                 \E i \in 1..Len(blocks) :
                                    /\ DateOf(blocks[i].start) = d
                                    /\ \A j \in 1..Len(blocks) :
                                          DateOf(blocks[j].start) = e => i <= j
         IN  [total_days_scheduled |-> Cardinality(days),
              avg_hours_per_day |->
                  RoundQuot(SumDays(days, blocks), Cardinality(days) * 360) * 360,
              busiest_day |-> busiest,
              busiest_day_hours |-> peak]

-----------------------------------------------------------------------------
(* TimelineEngine._schedule_task: the frame of a call *)

HalfHour == 1800

NoCall == [active |-> FALSE]

\* lines 194-215: the locals before the while loop
EnterScheduleTask(task, effort_needed, days_until_due, today) ==
    LET optimal_session == Min(Hours(3), Max(Hours(1), effort_needed \div 3))
        num_sessions == CeilDiv(effort_needed, optimal_session)
        buffer_days == Min(2, Max(1, days_until_due \div 4))
        distribution_days == Max(1, days_until_due - buffer_days)
        session_spacing == IF num_sessions > 1
                           THEN Max(1, distribution_days \div num_sessions)
                           ELSE 1
    IN  [active |-> TRUE,
         task |-> task,
         effort_needed |-> effort_needed,
         days_until_due |-> days_until_due,
         today |-> today,
         optimal_session |-> optimal_session,
         num_sessions |-> num_sessions,
         buffer_days |-> buffer_days,
         session_spacing |-> session_spacing,
         blocks |-> <<>>,
         sessions_scheduled |-> 0,
         remaining |-> effort_needed,
         current_day_offset |-> 0]

\* line 217: the condition of the while loop
LoopCondition(c) ==
    /\ c.sessions_scheduled < c.num_sessions
    /\ c.remaining > HalfHour
    /\ c.current_day_offset <= c.days_until_due

\* line 218
ScheduleDate(c) == c.today + c.current_day_offset * SecondsPerDay

\* lines 224-225
AvailableToday(c) ==
    preferences.max_hours_per_day
    - _get_day_hours_used(ScheduleDate(c), schedule_blocks \o c.blocks)

\* lines 221 and 232
SessionDuration(c) == Min(Min(c.optimal_session, c.remaining), AvailableToday(c))

\* lines 235-240
FoundSlot(c) ==
    _find_free_slot(ScheduleDate(c), SessionDuration(c), busy_intervals,
                    schedule_blocks \o c.blocks)

-----------------------------------------------------------------------------
(* TimelineEngine.generate_timeline, one action per step *)

run_state == <<schedulable_tasks, busy_intervals, scores, prioritized_tasks, ti,
               remaining_effort, call, schedule_blocks, metadata>>

\* lines 44-48: the metadata of the early return
EmptyMetadata ==
    [total_hours |-> 0, tasks_scheduled |-> 0,
     warnings |-> <<"No tasks with due dates to schedule">>]

\* lines 58-65
NewMetadata ==
    [total_hours |-> 0, tasks_scheduled |-> 0, tasks_partial |-> <<>>,
     tasks_unscheduled |-> <<>>, warnings |-> <<>>, stats |-> <<>>]

\* line 68: a dict comprehension, a later task with the same key overwrites
InitialEffort(order) ==
    [k \in {TaskKey(tasks[order[i]]) : i \in 1..Len(order)} |->
        LET last == CHOOSE i \in 1..Len(order) :
                       /\ TaskKey(tasks[order[i]]) = k
                       /\ \A j \in 1..Len(order) :
                             TaskKey(tasks[order[j]]) = k => j <= i
        IN  tasks[order[last]].effort_hours.v]

\* lines 41-51: filter the tasks; return early when none is schedulable
PrepareTasks ==
    /\ pc = "start"
    /\ schedulable_tasks' = _prepare_tasks(tasks)
    /\ IF schedulable_tasks' = <<>>
       THEN /\ schedule_blocks' = <<>>
            /\ metadata' = EmptyMetadata
            /\ busy_intervals' = busy_intervals
            /\ pc' = "done"
       ELSE /\ busy_intervals' = _build_busy_intervals(busy_blocks)
            /\ UNCHANGED <<schedule_blocks, metadata>>
            /\ pc' = "prioritize"
    /\ UNCHANGED <<inputs, now, ticks, scores, prioritized_tasks, ti,
                   remaining_effort, call, run, first>>

\* line 54 and lines 140-160: sorted() calls priority_score once per task,
\* and each call reads the clock
ScoreTask ==
    /\ pc = "prioritize"
    /\ Len(scores) < Len(schedulable_tasks)
    /\ scores' = Append(scores,
                        priority_score(tasks[schedulable_tasks[Len(scores) + 1]], now))
    /\ UNCHANGED <<inputs, now, ticks, pc, schedulable_tasks, busy_intervals,
                   prioritized_tasks, ti, remaining_effort, call,
                   schedule_blocks, metadata, run, first>>

\* lines 54-68 and 162: the sort, then the empty schedule and the tracking
SortTasks ==
    /\ pc = "prioritize"
    /\ Len(scores) = Len(schedulable_tasks)
    /\ prioritized_tasks' = _prioritize_tasks(schedulable_tasks, scores)
    /\ schedule_blocks' = <<>>
    /\ metadata' = NewMetadata
    /\ remaining_effort' = InitialEffort(prioritized_tasks')
    /\ ti' = 1
    /\ pc' = "loop"
    /\ UNCHANGED <<inputs, now, ticks, schedulable_tasks, busy_intervals, scores,
                   call, run, first>>

CurrentTask == tasks[prioritized_tasks[ti]]

InLoop == pc = "loop" /\ ti <= Len(prioritized_tasks)

\* line 80 and 81
Today == Midnight(now)
DaysUntilDue(task) == DateOf(task.due_date.at) - DateOf(Today)

\* lines 72-76: nothing is left under the task's key
SkipTask ==
    /\ InLoop
    /\ remaining_effort[TaskKey(CurrentTask)] <= 0
    /\ ti' = ti + 1
    /\ UNCHANGED <<inputs, now, ticks, pc, schedulable_tasks, busy_intervals,
                   scores, prioritized_tasks, remaining_effort, call,
                   schedule_blocks, metadata, run, first>>

\* lines 78-86: the task is overdue
OverdueWarning(title) == <<"overdue", title>>

\* line 79: parser.isoparse(task.due_date) returns
Parses(due_date) == due_date.kind # "bad"

\* lines 72-79: isoparse raises ValueError, nothing in generate_timeline
\* catches it and the call ends without a result
DueDateError ==
    /\ InLoop
    /\ remaining_effort[TaskKey(CurrentTask)] > 0
    /\ ~Parses(CurrentTask.due_date)
    /\ pc' = "error"
    /\ UNCHANGED <<inputs, now, ticks, schedulable_tasks, busy_intervals, scores,
                   prioritized_tasks, ti, remaining_effort, call,
                   schedule_blocks, metadata, run, first>>

Overdue ==
    /\ InLoop
    /\ remaining_effort[TaskKey(CurrentTask)] > 0
    /\ Parses(CurrentTask.due_date)
    /\ DaysUntilDue(CurrentTask) < 0
    /\ metadata' = [metadata EXCEPT
                      !.warnings = Append(@, OverdueWarning(CurrentTask.title)),
                      !.tasks_unscheduled = Append(@, CurrentTask.title)]
    /\ ti' = ti + 1
    /\ UNCHANGED <<inputs, now, ticks, pc, schedulable_tasks, busy_intervals,
                   scores, prioritized_tasks, remaining_effort, call,
                   schedule_blocks, run, first>>

\* lines 72-96 and 194-215: the call of _schedule_task
BeginTask ==
    /\ InLoop
    /\ remaining_effort[TaskKey(CurrentTask)] > 0
    /\ Parses(CurrentTask.due_date)
    /\ DaysUntilDue(CurrentTask) >= 0
    /\ call' = EnterScheduleTask(prioritized_tasks[ti],
                                 remaining_effort[TaskKey(CurrentTask)],
                                 DaysUntilDue(CurrentTask), Today)
    /\ pc' = "schedule"
    /\ UNCHANGED <<inputs, now, ticks, schedulable_tasks, busy_intervals, scores,
                   prioritized_tasks, ti, remaining_effort, schedule_blocks,
                   metadata, run, first>>

InWhile == pc = "schedule" /\ LoopCondition(call)

\* lines 227-229: the day has no headroom
DayFull ==
    /\ InWhile
    /\ AvailableToday(call) < HalfHour
    /\ call' = [call EXCEPT !.current_day_offset = @ + 1]
    /\ UNCHANGED <<inputs, now, ticks, pc, schedulable_tasks, busy_intervals,
                   scores, prioritized_tasks, ti, remaining_effort,
                   schedule_blocks, metadata, run, first>>

\* lines 242-258: a slot was found
NewBlock(c, slot) ==
    ScheduleBlock(c.task, tasks[c.task].id, tasks[c.task].title,
                  slot.start, slot.end, Round2(SessionDuration(c)),
                  _build_reason(tasks[c.task], c.sessions_scheduled + 1,
                                c.num_sessions,
                                c.days_until_due - c.current_day_offset))

PlaceSession ==
    /\ InWhile
    /\ AvailableToday(call) >= HalfHour
    /\ FoundSlot(call).found
    /\ call' = [call EXCEPT
                  !.blocks = Append(@, NewBlock(call, FoundSlot(call))),
                  !.remaining = @ - SessionDuration(call),
                  !.sessions_scheduled = @ + 1,
                  !.current_day_offset = @ + call.session_spacing]
    /\ UNCHANGED <<inputs, now, ticks, pc, schedulable_tasks, busy_intervals,
                   scores, prioritized_tasks, ti, remaining_effort,
                   schedule_blocks, metadata, run, first>>

\* a planner that tries the same day again when it has no slot
NoSlotToday_SameDay ==
    /\ InWhile
    /\ AvailableToday(call) >= HalfHour
    /\ ~FoundSlot(call).found
    /\ UNCHANGED vars

\* lines 259-261: no slot on that day
NoSlotToday ==
    /\ InWhile
    /\ AvailableToday(call) >= HalfHour
    /\ ~FoundSlot(call).found
    /\ call' = [call EXCEPT !.current_day_offset = @ + 1]
    /\ UNCHANGED <<inputs, now, ticks, pc, schedulable_tasks, busy_intervals,
                   scores, prioritized_tasks, ti, remaining_effort,
                   schedule_blocks, metadata, run, first>>

RECURSIVE SumDuration(_)
SumDuration(blocks) ==
    IF blocks = <<>> THEN 0
    ELSE Head(blocks).duration_hours + SumDuration(Tail(blocks))

\* lines 98-111 and 263: _schedule_task returns, the result is recorded
EndTask ==
    /\ pc = "schedule"
    /\ ~LoopCondition(call)
    /\ LET task_key == TaskKey(tasks[call.task])
           scheduled_hours == SumDuration(call.blocks)
           left == remaining_effort[task_key] - scheduled_hours
       IN  /\ schedule_blocks' = schedule_blocks \o call.blocks
           /\ remaining_effort' = [remaining_effort EXCEPT ![task_key] = left]
           /\ metadata' =
                 IF left > HalfHour
                 THEN [metadata EXCEPT
                         !.total_hours = @ + scheduled_hours,
                         !.tasks_partial =
                             Append(@, [title |-> tasks[call.task].title,
                                        remaining_hours |-> Round1(left)])]
                 ELSE [metadata EXCEPT
                         !.total_hours = @ + scheduled_hours,
                         !.tasks_scheduled = @ + 1]
    /\ call' = NoCall
    /\ ti' = ti + 1
    /\ pc' = "loop"
    /\ UNCHANGED <<inputs, now, ticks, schedulable_tasks, busy_intervals, scores,
                   prioritized_tasks, run, first>>

\* line 114: schedule_blocks.sort(key=start), a stable sort
RECURSIVE InsertBlock(_, _)
InsertBlock(s, b) ==
    IF s = <<>> THEN <<b>>
    ELSE IF b.start < Head(s).start THEN <<b>> \o s
    ELSE <<Head(s)>> \o InsertBlock(Tail(s), b)

\* no sort at the end
SortBlocks_Skipped(s) == s

RECURSIVE SortBlocks(_)
SortBlocks(s) ==
    IF s = <<>> THEN <<>>
    ELSE InsertBlock(SortBlocks(SubSeq(s, 1, Len(s) - 1)), s[Len(s)])

\* lines 113-119: all tasks are done
Finish ==
    /\ pc = "loop"
    /\ ti > Len(prioritized_tasks)
    /\ schedule_blocks' = SortBlocks(schedule_blocks)
    /\ metadata' = [metadata EXCEPT !.stats = _calculate_stats(schedule_blocks')]
    /\ pc' = "done"
    /\ UNCHANGED <<inputs, now, ticks, schedulable_tasks, busy_intervals, scores,
                   prioritized_tasks, ti, remaining_effort, call, run, first>>

\* the wall clock advances while the engine runs; the engine reads it in
\* priority_score (line 144) and once per task of the for loop (line 80)
MaxTicks == 1
ClockStep == Hours(16)

Tick ==
    /\ pc \in {"start", "prioritize", "loop"}
    /\ ticks < MaxTicks
    /\ now' = now + ClockStep
    /\ ticks' = ticks + 1
    /\ UNCHANGED <<inputs, pc, run_state, run, first>>

\* generate_timeline is called again with the same arguments
Rerun ==
    /\ pc = "done"
    /\ run = 1
    /\ first' = [schedule_blocks |-> schedule_blocks, metadata |-> metadata]
    /\ run' = 2
    /\ pc' = "start"
    /\ schedulable_tasks' = <<>>
    /\ busy_intervals' = <<>>
    /\ scores' = <<>>
    /\ prioritized_tasks' = <<>>
    /\ ti' = 0
    /\ remaining_effort' = <<>>
    /\ call' = NoCall
    /\ schedule_blocks' = <<>>
    /\ metadata' = <<>>
    /\ UNCHANGED <<inputs, now, ticks>>

Next ==
    \/ Tick
    \/ PrepareTasks
    \/ ScoreTask
    \/ SortTasks
    \/ SkipTask
    \/ Overdue
    \/ BeginTask
    \/ DayFull
    \/ PlaceSession
    \/ NoSlotToday
    \/ EndTask
    \/ Finish

-----------------------------------------------------------------------------
(* The inputs of a run *)

MaxTasks == 2
MaxBusy == 2

\* the sequences over pool of length 0..n
SeqsUpTo(pool, n) == UNION {[1..k -> pool] : k \in 0..n}

\* the sequences that list a subset of pool of at most n elements, in the
\* order of pool_seq
RECURSIVE Sublists(_, _)
Sublists(pool_seq, n) ==
    IF pool_seq = <<>> \/ n = 0 THEN {<<>>}
    ELSE Sublists(Tail(pool_seq), n)
         \cup {<<Head(pool_seq)>> \o rest : rest \in Sublists(Tail(pool_seq), n - 1)}

TaskPool ==
    { Task("", "A", AwareDue(2, 12), Some(Hours(1)), None, FALSE),
      Task("", "B", NaiveDue(3), Some(Hours(4)), Some(30), FALSE),
      Task("", "C", NaiveDue(0), Some(Hours(6)), Some(5), FALSE),
      Task("", "A", NaiveDue(-1), Some(Hours(1)), None, FALSE),
      Task("e", "E", AwareDue(1, 12), Some(Hours(9)), Some(0), FALSE),
      Task("f", "F", NaiveDue(1), Some(Hours(1)), Some(30), TRUE),
      Task("g", "G", None, Some(Hours(1)), Some(30), FALSE),
      Task("h", "H", NaiveDue(1), None, None, FALSE),
      Task("i", "I", NaiveDue(1), Some(0), None, FALSE) }

BusyPool ==
    << BusyBlock(At(0, 9, 0), At(0, 11, 30), TRUE),    \* inside the short windows
       BusyBlock(At(0, 14, 0), At(0, 15, 0), TRUE),    \* behind the short windows
       BusyBlock(At(-1, 10, 0), At(1, 10, 0), TRUE),   \* day 0 lies inside it
       BusyBlock(At(0, 0, 0), At(0, 23, 0), TRUE),     \* all of day 0
       BusyBlock(At(1, 2, 0), At(0, 10, 0), TRUE),     \* end before start
       BusyBlock(0, 0, FALSE) >>                       \* not ISO 8601

PreferencesPool ==
    { UserPreferences(Hours(6), <<9, 0>>, <<22, 0>>, 15, 30),  \* the defaults
      UserPreferences(Hours(2), <<9, 0>>, <<13, 0>>, 15, 30),
      UserPreferences(Hours(3), <<0, 0>>, <<23, 0>>, 0, 60) }

StartOfRun == At(0, 8, 0)

InitRun ==
    /\ ticks = 0
    /\ pc = "start"
    /\ schedulable_tasks = <<>>
    /\ busy_intervals = <<>>
    /\ scores = <<>>
    /\ prioritized_tasks = <<>>
    /\ ti = 0
    /\ remaining_effort = <<>>
    /\ call = NoCall
    /\ schedule_blocks = <<>>
    /\ metadata = <<>>
    /\ run = 1
    /\ first = <<>>

Init ==
    /\ tasks \in SeqsUpTo(TaskPool, MaxTasks)
    /\ busy_blocks \in Sublists(BusyPool, MaxBusy)
    /\ preferences \in PreferencesPool
    /\ now = StartOfRun
    /\ InitRun

Spec == Init /\ [][Next]_vars

\* two calls in a row on the same inputs
NextRerun == Next \/ Rerun

SpecRerun == Init /\ [][NextRerun]_vars

\* the prioritizer alone, on tasks that differ in due date, weight and effort
MaxPrioTasks == 3

PrioDues == {AwareDue(0, 12), AwareDue(1, 6), AwareDue(1, 12), NaiveDue(1)}
PrioWeights == {None, Some(0), Some(5)}
PrioEfforts == {Some(Hours(1)), Some(Hours(6))}

PrioPool ==
    {Task("", "T", d, e, w, FALSE) : d \in PrioDues, e \in PrioEfforts, w \in PrioWeights}

InitPrio ==
    /\ tasks \in SeqsUpTo(PrioPool, MaxPrioTasks)
    /\ busy_blocks = <<>>
    /\ preferences = UserPreferences(Hours(6), <<9, 0>>, <<22, 0>>, 15, 30)
    /\ now = StartOfRun
    /\ InitRun

\* the clock stands still: every task is scored at the same reading
NextPrio == PrepareTasks \/ ScoreTask \/ SortTasks

SpecPrio == InitPrio /\ [][NextPrio]_vars

\* runs whose tasks may carry a due date that is not ISO 8601
DuePool == TaskPool \cup {Task("x", "X", BadDue, Some(Hours(1)), Some(30), FALSE),
                          Task("", "A", BadDue, Some(Hours(2)), None, FALSE)}

InitDue ==
    /\ tasks \in SeqsUpTo(DuePool, MaxTasks)
    /\ busy_blocks \in {<<>>, <<BusyPool[4]>>}
    /\ preferences \in {UserPreferences(Hours(6), <<9, 0>>, <<22, 0>>, 15, 30),
                        UserPreferences(Hours(2), <<9, 0>>, <<13, 0>>, 15, 30)}
    /\ now = StartOfRun
    /\ InitRun

NextDue == Next \/ DueDateError

SpecDue == InitDue /\ [][NextDue]_vars

\* runs with preferences the model classes accept although they make no
\* sense: UserPreferences has no validator and __init__ only splits the
\* two time strings
InvalidPreferencesPool ==
    { UserPreferences(Hours(6), <<13, 0>>, <<9, 0>>, 15, 30),    \* end < start
      UserPreferences(Hours(6), <<9, 0>>, <<9, 0>>, 15, 30),     \* end = start
      UserPreferences(0, <<9, 0>>, <<22, 0>>, 15, 30),           \* no hours
      UserPreferences(-Hours(1), <<9, 0>>, <<22, 0>>, 15, 30),
      UserPreferences(Hours(6), <<9, 0>>, <<22, 0>>, 15, 0),     \* no minimum
      UserPreferences(Hours(6), <<9, 0>>, <<22, 0>>, -15, 30) }  \* break < 0

InitPrefs ==
    /\ tasks \in SeqsUpTo(TaskPool, MaxTasks)
    /\ busy_blocks \in {<<>>, <<BusyPool[1]>>}
    /\ preferences \in InvalidPreferencesPool
    /\ now = StartOfRun
    /\ InitRun

SpecPrefs == InitPrefs /\ [][Next]_vars

\* the steps of a run while the clock stands still
NextStill ==
    \/ PrepareTasks
    \/ ScoreTask
    \/ SortTasks
    \/ SkipTask
    \/ Overdue
    \/ BeginTask
    \/ DayFull
    \/ PlaceSession
    \/ NoSlotToday
    \/ EndTask
    \/ Finish

\* a busy block that parses and ends at or before its start
IllFormed(b) == b.parses /\ b.end <= b.start

RECURSIVE WellFormedOnly(_)
WellFormedOnly(bs) ==
    IF bs = <<>> THEN <<>>
    ELSE IF IllFormed(Head(bs)) THEN WellFormedOnly(Tail(bs))
    ELSE <<Head(bs)>> \o WellFormedOnly(Tail(bs))

\* generate_timeline is called again, on the same tasks and the busy blocks
\* that are left when those with end <= start are taken out
RerunWellFormed ==
    /\ pc = "done"
    /\ run = 1
    /\ first' = [schedule_blocks |-> schedule_blocks, metadata |-> metadata]
    /\ run' = 2
    /\ busy_blocks' = WellFormedOnly(busy_blocks)
    /\ pc' = "start"
    /\ schedulable_tasks' = <<>>
    /\ busy_intervals' = <<>>
    /\ scores' = <<>>
    /\ prioritized_tasks' = <<>>
    /\ ti' = 0
    /\ remaining_effort' = <<>>
    /\ call' = NoCall
    /\ schedule_blocks' = <<>>
    /\ metadata' = <<>>
    /\ UNCHANGED <<tasks, preferences, now, ticks>>

DropPool ==
    << BusyBlock(At(0, 9, 0), At(0, 11, 30), TRUE),
       BusyBlock(At(0, 10, 30), At(0, 10, 0), TRUE),   \* end before start
       BusyBlock(At(0, 10, 0), At(0, 10, 0), TRUE),    \* end = start
       BusyBlock(At(1, 2, 0), At(0, 10, 0), TRUE) >>   \* end a day before start

InitDrop ==
    /\ tasks \in SeqsUpTo(TaskPool, MaxTasks)
    /\ busy_blocks \in Sublists(DropPool, MaxBusy)
    /\ preferences \in PreferencesPool
    /\ now = StartOfRun
    /\ InitRun

NextDrop == NextStill \/ RerunWellFormed

SpecDrop == InitDrop /\ [][NextDrop]_vars

\* runs on small, regular inputs: one or two tasks, calendars that are empty,
\* busy for the whole window of every day but for one gap, or busy for two
\* hours of day 0; the clock stands still
EssayEffort == Hours(6)
ProjectEffort == Hours(4)

ScenarioEfforts == {Hours(1), Hours(2), EssayEffort}

ScenarioTasks ==
    { Task("a", "Essay", AwareDue(6, 12), Some(EssayEffort), None, FALSE),
      Task("a", "Essay", NaiveDue(6), Some(EssayEffort), None, FALSE),
      Task("b", "Late", NaiveDue(-1), Some(Hours(1)), None, FALSE),
      Task("c", "Project", AwareDue(3, 12), Some(ProjectEffort), None, FALSE) }
    \cup {Task("h", "Heavy", d, Some(e), Some(30), FALSE) :
             d \in {NaiveDue(2), AwareDue(2, 12)}, e \in ScenarioEfforts}
    \cup {Task("l", "Light", d, Some(e), Some(5), FALSE) :
             d \in {NaiveDue(2), AwareDue(2, 12)}, e \in ScenarioEfforts}

\* busy from 09:00 to 22:00 on each of the days d..last, but for the three
\* hours from 12:00 to 15:00 on gap_day
RECURSIVE CalendarWithGap(_, _, _)
CalendarWithGap(d, last, gap_day) ==
    IF d > last THEN <<>>
    ELSE (IF d = gap_day
          THEN <<BusyBlock(At(d, 9, 0), At(d, 12, 0), TRUE),
                 BusyBlock(At(d, 15, 0), At(d, 22, 0), TRUE)>>
          ELSE <<BusyBlock(At(d, 9, 0), At(d, 22, 0), TRUE)>>)
         \o CalendarWithGap(d + 1, last, gap_day)

ScenarioCalendars ==
    { <<>>,
      CalendarWithGap(0, 3, 1),
      CalendarWithGap(0, 3, 2),
      <<BusyBlock(At(0, 10, 0), At(0, 12, 0), TRUE)>> }

ScenarioPreferences ==
    { UserPreferences(Hours(6), <<9, 0>>, <<22, 0>>, 15, 30),
      UserPreferences(Hours(2), <<9, 0>>, <<22, 0>>, 15, 30) }

InitScenarios ==
    /\ tasks \in SeqsUpTo(ScenarioTasks, MaxTasks)
    /\ busy_blocks \in ScenarioCalendars
    /\ preferences \in ScenarioPreferences
    /\ now = StartOfRun
    /\ InitRun

SpecScenarios == InitScenarios /\ [][NextStill]_vars

\* _find_free_slot alone: one call on a day, a duration, busy intervals with
\* end > start and blocks placed before
MaxSlotBusy == 2

SlotBusyPool ==
    { BusyBlock(At(0, 6, 0), At(0, 7, 0), TRUE),      \* before the window
      BusyBlock(At(0, 8, 0), At(0, 9, 30), TRUE),     \* across its start
      BusyBlock(At(0, 10, 0), At(0, 11, 0), TRUE),
      BusyBlock(At(0, 10, 30), At(0, 12, 0), TRUE),
      BusyBlock(At(0, 12, 30), At(0, 14, 0), TRUE),   \* across its end
      BusyBlock(At(0, 14, 0), At(0, 15, 0), TRUE),    \* behind the window
      BusyBlock(At(0, 9, 0), At(0, 13, 0), TRUE),     \* the whole window
      BusyBlock(At(-1, 22, 0), At(0, 10, 0), TRUE),   \* from the day before
      BusyBlock(At(-1, 10, 0), At(1, 10, 0), TRUE),   \* day 0 lies inside it
      BusyBlock(At(1, 9, 0), At(1, 10, 0), TRUE) }    \* the next day

PlacedBlock(start, end) == ScheduleBlock(1, "", "T", start, end, end - start, <<>>)

SlotExisting ==
    { <<>>,
      <<PlacedBlock(At(0, 9, 0), At(0, 10, 0))>>,
      <<PlacedBlock(At(0, 11, 0), At(0, 12, 0))>>,
      <<PlacedBlock(At(0, 9, 0), At(0, 10, 0)), PlacedBlock(At(1, 9, 0), At(1, 11, 0))>> }

SlotPreferences ==
    { UserPreferences(Hours(6), <<9, 0>>, <<13, 0>>, 15, 30),
      UserPreferences(Hours(6), <<9, 0>>, <<13, 0>>, 0, 60) }

SlotDurations == {Minutes(30), Minutes(45), Hours(1), Minutes(80), Hours(2), Hours(3)}
SlotDays == {0, 1}

InitSlot ==
    /\ tasks = <<>>
    /\ busy_blocks \in SeqsUpTo(SlotBusyPool, MaxSlotBusy)
    /\ preferences \in SlotPreferences
    /\ schedule_blocks \in SlotExisting
    /\ now = StartOfRun
    /\ ticks = 0
    /\ pc = "start"
    /\ schedulable_tasks = <<>>
    /\ busy_intervals = <<>>
    /\ scores = <<>>
    /\ prioritized_tasks = <<>>
    /\ ti = 0
    /\ remaining_effort = <<>>
    /\ call = NoCall
    /\ metadata = <<>>
    /\ run = 1
    /\ first = <<>>

\* lines 51 and 235-240: the busy intervals are built and _find_free_slot is
\* called; the arguments and the result are kept in call
SearchSlot ==
    /\ pc = "start"
    /\ busy_intervals' = _build_busy_intervals(busy_blocks)
    /\ \E d \in SlotDays, duration_hours \in SlotDurations :
          call' = [active |-> FALSE,
                   day |-> d * SecondsPerDay,
                   duration_hours |-> duration_hours,
                   slot |-> _find_free_slot(d * SecondsPerDay, duration_hours,
                                            busy_intervals', schedule_blocks)]
    /\ pc' = "slot"
    /\ UNCHANGED <<inputs, now, ticks, schedulable_tasks, scores,
                   prioritized_tasks, ti, remaining_effort, schedule_blocks,
                   metadata, run, first>>

SpecSlot == InitSlot /\ [][SearchSlot]_vars

\* the session planner over several days: tasks of one to three sessions due
\* within the week, two tasks with the same id, an overdue task; calendars
\* with a minute of busy time in the morning or with day 0 taken but for its
\* last hour; preferences whose headroom ends between the half hour of
\* line 227 and min_study_block_minutes; the clock stands still
MaxPlanTasks == 2

PlanTasks ==
    { Task("y", "Y", AwareDue(0, 23), Some(Hours(3)), Some(30), FALSE),
      Task("s", "S", AwareDue(0, 23), Some(Minutes(45)), None, FALSE),
      Task("x", "X", AwareDue(2, 23), Some(Hours(2)), None, FALSE),
      Task("b", "B", AwareDue(8, 12), Some(Hours(5)), None, FALSE),
      Task("x", "Q", AwareDue(3, 12), Some(Hours(6)), None, FALSE),
      Task("l", "L", NaiveDue(-1), Some(Hours(1)), None, FALSE) }

PlanCalendars ==
    { <<>>,
      <<BusyBlock(At(0, 9, 50), At(0, 9, 51), TRUE)>>,
      <<BusyBlock(At(0, 0, 0), At(0, 23, 0), TRUE),
        BusyBlock(At(1, 6, 0), At(0, 10, 0), TRUE)>>,      \* end before start
      <<BusyBlock(At(0, 0, 0), At(0, 23, 0), TRUE),
        BusyBlock(At(1, 9, 0), At(1, 22, 0), TRUE)>> }

PlanPreferences ==
    { UserPreferences(Hours(6), <<9, 0>>, <<22, 0>>, 15, 30),    \* the defaults
      UserPreferences(Hours(8), <<0, 0>>, <<23, 0>>, 0, 30),
      UserPreferences(Minutes(75), <<9, 0>>, <<22, 0>>, 15, 15),
      UserPreferences(Minutes(105), <<9, 0>>, <<22, 0>>, 15, 60) }

InitPlan ==
    /\ tasks \in SeqsUpTo(PlanTasks, MaxPlanTasks)
    /\ busy_blocks \in PlanCalendars
    /\ preferences \in PlanPreferences
    /\ now = StartOfRun
    /\ InitRun

SpecPlan == InitPlan /\ [][NextStill]_vars

\* runs that are followed to their end: generate_timeline is a sequential
\* procedure without a wait, so a step that can be taken is taken
MaxFairTasks == 2

FairTasks ==
    { Task("y", "Y", AwareDue(0, 23), Some(Hours(3)), Some(30), FALSE),
      Task("x", "X", AwareDue(2, 23), Some(Hours(2)), None, FALSE),
      Task("x", "Q", AwareDue(3, 12), Some(Hours(6)), None, FALSE),
      Task("l", "L", NaiveDue(-1), Some(Hours(1)), None, FALSE) }

FairCalendars ==
    { <<>>,
      <<BusyBlock(At(0, 0, 0), At(0, 23, 0), TRUE),
        BusyBlock(At(1, 9, 0), At(1, 22, 0), TRUE)>> }

FairPreferences ==
    { UserPreferences(Hours(6), <<9, 0>>, <<22, 0>>, 15, 30),
      UserPreferences(Minutes(75), <<9, 0>>, <<22, 0>>, 15, 15) }

InitFair ==
    /\ tasks \in SeqsUpTo(FairTasks, MaxFairTasks)
    /\ busy_blocks \in FairCalendars
    /\ preferences \in FairPreferences
    /\ now = StartOfRun
    /\ InitRun

SpecPlanFair == InitFair /\ [][NextStill]_vars /\ WF_vars(NextStill)
-----------------------------------------------------------------------------
(* Properties of a run *)

\* every block placed so far: those of the finished calls and of the running one
AllBlocks == schedule_blocks \o (IF call.active THEN call.blocks ELSE <<>>)

Overlap(s1, e1, s2, e2) == s1 < e2 /\ s2 < e1

SameDay(a, b) == DateOf(a.start) = DateOf(b.start)

Done == pc = "done"

\* C1: no two distinct blocks of a run overlap as intervals [start, end),
\* whether they belong to the same task or to different tasks
C1_NoOverlap ==
    \A i, j \in 1..Len(AllBlocks) :
        i # j => ~Overlap(AllBlocks[i].start, AllBlocks[i].end,
                          AllBlocks[j].start, AllBlocks[j].end)

WindowStart(b) == Midnight(b.start) + Hours(start_hour) + Minutes(start_minute)
WindowEnd(b) == Midnight(b.start) + Hours(end_hour) + Minutes(end_minute)

\* C2: every block starts at or after preferred_start_time and ends at or
\* before preferred_end_time of the day it is placed on
C2_WindowContainment ==
    \A i \in 1..Len(AllBlocks) :
        /\ WindowStart(AllBlocks[i]) <= AllBlocks[i].start
        /\ AllBlocks[i].end <= WindowEnd(AllBlocks[i])

\* the time from start to end of the blocks that start on the day of date
RECURSIVE DayLength(_, _)
DayLength(date, block_list) ==
    IF block_list = <<>> THEN 0
    ELSE (IF DateOf(Head(block_list).start) = DateOf(date)
          THEN Head(block_list).end - Head(block_list).start ELSE 0)
         + DayLength(date, Tail(block_list))

\* C3: on every day the durations (end - start) of the blocks that start on
\* that day add up to at most max_hours_per_day, after every placement
C3_DailyBudget ==
    \A i \in 1..Len(AllBlocks) :
        DayLength(AllBlocks[i].start, AllBlocks) <= preferences.max_hours_per_day

\* C4: no block overlaps a busy interval of the input with end > start
C4_BusyAvoidance ==
    \A i \in 1..Len(AllBlocks), k \in 1..Len(busy_blocks) :
        (busy_blocks[k].parses /\ busy_blocks[k].end > busy_blocks[k].start)
            => ~Overlap(AllBlocks[i].start, AllBlocks[i].end,
                        busy_blocks[k].start, busy_blocks[k].end)

Eligible(t) ==
    /\ t.completed = FALSE
    /\ t.due_date.set
    /\ t.effort_hours.set /\ t.effort_hours.v > 0

\* C5: every block refers to a task that is not completed and has a due date
\* and a positive effort; the other tasks are left out of the run, and a run
\* without a schedulable task returns the empty schedule
C5_OnlySchedulable ==
    /\ \A i \in 1..Len(AllBlocks) : Eligible(tasks[AllBlocks[i].task])
    /\ \A k \in 1..Len(prioritized_tasks) : Eligible(tasks[prioritized_tasks[k]])
    /\ (Done /\ \A i \in 1..Len(tasks) : ~Eligible(tasks[i]))
          => (schedule_blocks = <<>> /\ metadata = EmptyMetadata)

\* a finished run that placed a block and whose input held a task that is
\* not schedulable
C5_Witness ==
    /\ Done
    /\ schedule_blocks # <<>>
    /\ \E i \in 1..Len(tasks) : ~Eligible(tasks[i])

InSeq(x, s) == \E i \in 1..Len(s) : s[i] = x

\* C6: a task due before today has no block and is listed in
\* tasks_unscheduled with an overdue warning, and the run goes on to the end
C6_OverdueReported ==
    (Done /\ prioritized_tasks # <<>>) =>
        /\ ti > Len(prioritized_tasks)
        /\ \A k \in 1..Len(prioritized_tasks) :
              LET t == tasks[prioritized_tasks[k]]
              IN  DateOf(t.due_date.at) < DateOf(StartOfRun) =>
                     /\ \A i \in 1..Len(schedule_blocks) :
                           schedule_blocks[i].task # prioritized_tasks[k]
                     /\ InSeq(t.title, metadata.tasks_unscheduled)
                     /\ InSeq(OverdueWarning(t.title), metadata.warnings)

\* C7: the returned blocks are in the order of their start times
C7_SortedByStart ==
    Done => \A i, j \in 1..Len(schedule_blocks) :
               i < j => schedule_blocks[i].start <= schedule_blocks[j].start

\* a finished run in which a block of one task lies between two blocks of
\* another task
C7_Witness ==
    /\ Done
    /\ \E i, j, k \in 1..Len(schedule_blocks) :
          /\ i < j /\ j < k
          /\ schedule_blocks[i].task = schedule_blocks[k].task
          /\ schedule_blocks[i].task # schedule_blocks[j].task

-----------------------------------------------------------------------------
(* Properties of the prioritizer *)

Prioritized == pc = "loop" /\ Len(scores) = Len(schedulable_tasks)

\* weight >= weight: both absent, or both present and not smaller
WeightAtLeast(a, b) ==
    \/ ~a.weight.set /\ ~b.weight.set
    \/ a.weight.set /\ b.weight.set /\ a.weight.v >= b.weight.v

\* task.weight or 10
EffectiveWeight(t) == IF t.weight.set /\ t.weight.v # 0 THEN t.weight.v ELSE 10

ScoreAt(k) ==
    scores[CHOOSE p \in 1..Len(schedulable_tasks) :
              schedulable_tasks[p] = prioritized_tasks[k]]

\* C9: the result of _prioritize_tasks is a permutation of its input in
\* non-increasing order of score, and tasks of equal score keep their input
\* order
C9_StableDescending ==
    Prioritized =>
        /\ Len(prioritized_tasks) = Len(schedulable_tasks)
        /\ \A p \in 1..Len(schedulable_tasks) :
              Cardinality({k \in 1..Len(prioritized_tasks) :
                              prioritized_tasks[k] = schedulable_tasks[p]}) = 1
        /\ \A k, m \in 1..Len(prioritized_tasks) :
              k < m =>
                 /\ ~ScoreLess(ScoreAt(k), ScoreAt(m))
                 /\ ~ScoreLess(ScoreAt(m), ScoreAt(k))
                       => prioritized_tasks[k] < prioritized_tasks[m]

\* three tasks, two of them different tasks of equal score, and an order that
\* is not the input order
C9_Witness ==
    /\ Prioritized
    /\ Len(prioritized_tasks) = 3
    /\ prioritized_tasks # schedulable_tasks
    /\ \E k, m \in 1..3 :
          /\ k < m
          /\ tasks[prioritized_tasks[k]] # tasks[prioritized_tasks[m]]
          /\ ~ScoreLess(ScoreAt(k), ScoreAt(m))
          /\ ~ScoreLess(ScoreAt(m), ScoreAt(k))

-----------------------------------------------------------------------------
(* Properties of two runs *)

\* C10: a second run on the same tasks, busy intervals and preferences
\* returns the same blocks in the same order and the same metadata
C10_SameResult ==
    (run = 2 /\ Done) =>
        /\ schedule_blocks = first.schedule_blocks
        /\ metadata = first.metadata

-----------------------------------------------------------------------------
(* Properties of the clock *)

\* the readings datetime.now() can return during a run
ClockReadings == {StartOfRun + k * ClockStep : k \in 0..MaxTicks}

\* C11: one reference time serves the whole run: there is a reading from
\* which every priority score computed so far and the today of the running
\* _schedule_task call are derived
C11_OneReference ==
    run = 1 =>
        \E c \in ClockReadings :
            /\ \A k \in 1..Len(scores) :
                  scores[k] = priority_score(tasks[schedulable_tasks[k]], c)
            /\ call.active => call.today = Midnight(c)


-----------------------------------------------------------------------------
(* Properties of the error paths *)

Aborted == pc = "error"

\* the warnings of the result that name the task title
WarnedAbout(title) ==
    \E w \in 1..Len(metadata.warnings) :
        /\ Len(metadata.warnings[w]) = 2
        /\ metadata.warnings[w][2] = title

UnparseableDue(t) == Schedulable(t) /\ ~Parses(t.due_date)

\* C12: a task whose due date is present but cannot be parsed does not abort
\* the run; it gets priority 0 and the result carries a warning about it
C12_UnparseableDueDate ==
    /\ ~Aborted
    /\ \A k \in 1..Len(scores) :
          UnparseableDue(tasks[schedulable_tasks[k]]) => scores[k] = ZeroScore
    /\ Done =>
          \A i \in 1..Len(tasks) :
              UnparseableDue(tasks[i]) => WarnedAbout(tasks[i].title)


\* the preferences the specification calls invalid
InvalidPreferences(p) ==
    \/ At(0, p.preferred_end_time[1], p.preferred_end_time[2])
          <= At(0, p.preferred_start_time[1], p.preferred_start_time[2])
    \/ p.max_hours_per_day <= 0
    \/ p.min_study_block_minutes <= 0
    \/ p.break_duration_minutes < 0

\* C13: invalid preferences are rejected before any scheduling attempt: no
\* block is placed and no schedule result is produced
C13_InvalidPreferencesRejected ==
    InvalidPreferences(preferences) => (AllBlocks = <<>> /\ ~Done)


-----------------------------------------------------------------------------
(* Properties of the result *)

NothingToSchedule == "No tasks with due dates to schedule"

\* a warning of the scheduling loop other than the overdue message of a task
OtherReason(w) == w # OverdueWarning(w[2])

\* the run is over with no block, and a task went through _schedule_task
\* without being placed in full
NothingPlaced ==
    /\ Done
    /\ schedule_blocks = <<>>
    /\ schedulable_tasks # <<>>
    /\ metadata.tasks_partial # <<>>

\* C14: an empty schedule comes with a reason that tells the causes apart:
\* "nothing to schedule" when no task is schedulable, and another, non-empty
\* reason when a schedulable task that is not overdue found no slot on any day
C14_EmptyScheduleReason ==
    /\ (Done /\ schedulable_tasks = <<>>) =>
          metadata.warnings = <<NothingToSchedule>>
    /\ NothingPlaced =>
          \E w \in 1..Len(metadata.warnings) : OtherReason(metadata.warnings[w])


\* C15: a busy interval with end <= start has no effect: the run on the busy
\* blocks without such intervals returns the schedule of the run with them
C15_IllFormedDropped ==
    (run = 2 /\ Done) => schedule_blocks = first.schedule_blocks


\* the hours placed for the input task i
RECURSIVE PlacedFor(_, _)
PlacedFor(i, blocks) ==
    IF blocks = <<>> THEN 0
    ELSE (IF Head(blocks).task = i THEN Head(blocks).duration_hours ELSE 0)
         + PlacedFor(i, Tail(blocks))

\* the schedulable tasks (positions in schedulable_tasks) that are not overdue
NotOverdue ==
    {k \in 1..Len(schedulable_tasks) :
        DaysUntilDue(tasks[schedulable_tasks[k]]) >= 0}

\* C16: after a run every schedulable task that is not overdue is accounted
\* for exactly once: in tasks_partial with its effort minus the hours placed
\* for it when that is more than half an hour, in tasks_scheduled otherwise
C16_AccountedOnce ==
    (Done /\ ticks = 0 /\ schedulable_tasks # <<>>) =>
        /\ Len(metadata.tasks_partial) + metadata.tasks_scheduled
              = Cardinality(NotOverdue)
        /\ \A k \in NotOverdue :
              LET i == schedulable_tasks[k]
                  left == tasks[i].effort_hours.v - PlacedFor(i, schedule_blocks)
              IN  left > HalfHour <=>
                     InSeq([title |-> tasks[i].title,
                            remaining_hours |-> Round1(left)],
                           metadata.tasks_partial)


-----------------------------------------------------------------------------
(* Properties of the scenarios *)

\* one task of 6 hours due in 6 days, nothing in the calendar, 2 hours a day
ScenarioA ==
    /\ Len(tasks) = 1
    /\ tasks[1].title = "Essay"
    /\ busy_blocks = <<>>
    /\ preferences = UserPreferences(Hours(2), <<9, 0>>, <<22, 0>>, 15, 30)

\* about h hours: within half an hour of it
About(x, h) == x >= Hours(h) - HalfHour /\ x <= Hours(h) + HalfHour

\* C17: scenario A ends with 3 sessions of about 2 hours on three different
\* days of which no two follow each other directly
C17_ScenarioA ==
    (ScenarioA /\ Done) =>
        /\ Len(schedule_blocks) = 3
        /\ \A i \in 1..Len(schedule_blocks) :
              About(schedule_blocks[i].end - schedule_blocks[i].start, 2)
        /\ \A i, j \in 1..Len(schedule_blocks) :
              i < j => DateOf(schedule_blocks[j].start)
                          - DateOf(schedule_blocks[i].start) >= 2


\* one task of 4 hours; the window of every day up to the deadline is busy
\* but for three hours of one day
ScenarioC ==
    /\ Len(tasks) = 1
    /\ tasks[1].title = "Project"
    /\ busy_blocks \in {CalendarWithGap(0, 3, 1), CalendarWithGap(0, 3, 2)}

\* C18: scenario C ends with about 3 hours placed and the task in
\* tasks_partial with about 1 hour remaining
C18_ScenarioC ==
    (ScenarioC /\ Done) =>
        /\ About(PlacedFor(1, schedule_blocks), 3)
        /\ Len(metadata.tasks_partial) = 1
        /\ metadata.tasks_partial[1].title = tasks[1].title
        /\ About(metadata.tasks_partial[1].remaining_hours, 1)

\* two schedulable tasks due on the same day, the first named of weight 30
\* and the second of weight 5
ScenarioD(heavy, light) ==
    /\ Len(tasks) = 2
    /\ {heavy, light} = {1, 2}
    /\ tasks[heavy].weight = Some(30)
    /\ tasks[light].weight = Some(5)
    /\ DateOf(tasks[heavy].due_date.at) = DateOf(tasks[light].due_date.at)

\* C19: in scenario D the task of weight 30 is processed first, and on a day
\* on which both tasks have a block its block starts before the other's
C19_ScenarioD ==
    \A heavy, light \in 1..Len(tasks) :
        ScenarioD(heavy, light) =>
            /\ pc \in {"loop", "schedule", "done"} =>
                  prioritized_tasks = <<heavy, light>>
            /\ \A i, j \in 1..Len(AllBlocks) :
                  (/\ AllBlocks[i].task = heavy
                   /\ AllBlocks[j].task = light
                   /\ SameDay(AllBlocks[i], AllBlocks[j]))
                  => AllBlocks[i].start < AllBlocks[j].start


-----------------------------------------------------------------------------
(* Properties of _find_free_slot *)

Searched == pc = "slot"

\* the working window of the day of the call
SearchStart == call.day + Hours(start_hour) + Minutes(start_minute)
SearchEnd == call.day + Hours(end_hour) + Minutes(end_minute)

\* the start times to look at: the quarter hours of the window.  The ends of
\* the intervals drawn above, with or without the break, are among them
QuarterHour == Minutes(15)
StartTimes ==
    {SearchStart + k * QuarterHour :
        k \in 0..((SearchEnd - SearchStart) \div QuarterHour)}

\* an interval of the requested duration that starts at t lies in the window
\* and is disjoint from every busy interval and from every placed block with
\* the break after it
Fits(t) ==
    /\ t >= SearchStart
    /\ t + call.duration_hours <= SearchEnd
    /\ \A i \in 1..Len(busy_intervals) :
          ~Overlap(t, t + call.duration_hours,
                   busy_intervals[i][1], busy_intervals[i][2])
    /\ \A j \in 1..Len(schedule_blocks) :
          ~Overlap(t, t + call.duration_hours, schedule_blocks[j].start,
                   schedule_blocks[j].end
                      + Minutes(preferences.break_duration_minutes))

EarliestFit ==
    IF call.slot.found
    THEN \A t \in StartTimes : t < call.slot.start => ~Fits(t)
    ELSE \A t \in StartTimes : ~Fits(t)

\* C20 as stated: when _find_free_slot returns a slot no earlier start time
\* of the window fits, and when it returns none no start time of the window
\* fits
C20_EarliestFit == Searched => EarliestFit

\* C20: the same for a requested duration that is not below
\* min_study_block_minutes, for which the function returns without searching
C20_EarliestFitSearched ==
    (Searched /\ call.duration_hours >= Minutes(preferences.min_study_block_minutes))
        => EarliestFit

\* a slot behind two busy periods was returned, and another call found none
C20_Witness ==
    /\ Searched
    /\ call.duration_hours >= Minutes(preferences.min_study_block_minutes)
    /\ Len(busy_intervals) = 2
    /\ schedule_blocks # <<>>
    /\ call.slot.found
    /\ call.slot.start > SearchStart
    /\ Fits(call.slot.start)

-----------------------------------------------------------------------------
(* Properties of the session planner (_schedule_task) *)

\* lines 203-204: the buffer_days days before the day of the deadline
BufferDay(c, o) ==
    /\ c.days_until_due - c.buffer_days <= o
    /\ o < c.days_until_due

\* the frame of the call, had the loop of line 217 arrived at day offset o
OnDay(c, o) == [c EXCEPT !.current_day_offset = o]

\* lines 224-240 for the day at offset o and a session of the given length:
\* the headroom of the day covers the session and _find_free_slot finds a
\* slot for it
HasCapacity(c, o, duration) ==
    /\ AvailableToday(OnDay(c, o)) >= duration
    /\ _find_free_slot(ScheduleDate(OnDay(c, o)), duration, busy_intervals,
                       schedule_blocks \o c.blocks).found

\* C21: a session is placed on one of the buffer_days days before the
\* deadline only if none of the days from today up to the start of the
\* buffer has the headroom and a free slot for that session
C21_BufferDays ==
    [][PlaceSession /\ BufferDay(call, call.current_day_offset)
       => \A o \in 0..(call.days_until_due - call.buffer_days - 1) :
             ~HasCapacity(call, o, SessionDuration(call))]_vars

\* C22: the sessions of a task lie on strictly increasing calendar days, any
\* two successive ones at least session_spacing days apart
C22_SpacedSessions ==
    call.active =>
        \A k \in 1..(Len(call.blocks) - 1) :
            DateOf(call.blocks[k + 1].start) - DateOf(call.blocks[k].start)
                >= call.session_spacing

\* line 295: min_study_block_minutes as a length of time
MinStudyBlock == Minutes(preferences.min_study_block_minutes)

\* C23: in every iteration of the loop the day is skipped, without a search,
\* exactly when its headroom is below min_study_block_minutes; otherwise the
\* session, clamped to optimal_session, the remaining effort and the
\* headroom, is offered to _find_free_slot and placed in the slot it finds
C23_HeadroomSkip ==
    [][InWhile =>
          IF AvailableToday(call) < MinStudyBlock
          THEN call' = [call EXCEPT !.current_day_offset = @ + 1]
          ELSE FoundSlot(call).found => PlaceSession]_vars

\* lines 217-261: the iterations of the while loop made so far; one that
\* places a session adds session_spacing to the day offset, any other adds 1
Iterations(c) ==
    c.sessions_scheduled
    + (c.current_day_offset - c.sessions_scheduled * c.session_spacing)

\* C24: every iteration of the loop of _schedule_task moves the day offset
\* forward by at least 1, the loop makes at most days_until_due + 1
\* iterations, and every run comes to its end
C24_Terminates ==
    /\ [][InWhile => call'.current_day_offset >= call.current_day_offset + 1]_vars
    /\ [](pc = "schedule" => Iterations(call) <= call.days_until_due + 1)
    /\ <>Done

\* a call that used all of its days_until_due + 1 iterations, some of them on
\* days without a slot or without headroom
C24_Witness ==
    /\ pc = "schedule"
    /\ ~LoopCondition(call)
    /\ call.days_until_due >= 2
    /\ call.sessions_scheduled < call.num_sessions
    /\ call.current_day_offset > call.sessions_scheduled * call.session_spacing
    /\ Iterations(call) = call.days_until_due + 1

\* C25: every block of a task starts on a calendar day from today to the day
\* of the task's due date, both included
C25_WithinDueDate ==
    \A i \in 1..Len(AllBlocks) :
        /\ DateOf(AllBlocks[i].start) >= DateOf(Today)
        /\ DateOf(AllBlocks[i].start)
              <= DateOf(tasks[AllBlocks[i].task].due_date.at)

\* C26: of two blocks that start on the same calendar day, the one that
\* starts later starts no earlier than break_duration_minutes after the end
\* of the other, whichever of them was placed first
C26_BreakAfterSession ==
    \A i, j \in 1..Len(AllBlocks) :
        (SameDay(AllBlocks[i], AllBlocks[j])
         /\ AllBlocks[i].start < AllBlocks[j].start)
        => AllBlocks[j].start
              >= AllBlocks[i].end + Minutes(preferences.break_duration_minutes)

\* C27: no block is shorter than min_study_block_minutes; a session that is
\* below the minimum after it was clamped to the remaining effort and to the
\* headroom of the day is not placed
C27_MinimumBlock ==
    \A i \in 1..Len(AllBlocks) :
        AllBlocks[i].end - AllBlocks[i].start >= MinStudyBlock

\* the planner has just left a day on which the clamped session was below
\* the minimum although the day had half an hour of headroom; blocks of an
\* earlier task are placed
C27_Witness ==
    /\ pc = "schedule"
    /\ Len(schedule_blocks) > 0
    /\ call.blocks = <<>>
    /\ call.current_day_offset > 0
    /\ AvailableToday(OnDay(call, call.current_day_offset - 1)) >= HalfHour
    /\ SessionDuration(OnDay(call, call.current_day_offset - 1)) < MinStudyBlock

\* C28: every block lasts at least one hour and at most three hours
C28_SessionLength ==
    \A i \in 1..Len(AllBlocks) :
        /\ AllBlocks[i].end - AllBlocks[i].start >= Hours(1)
        /\ AllBlocks[i].end - AllBlocks[i].start <= Hours(3)

\* lines 197-200 for the effort of the task itself
NumSessionsOf(t) ==
    CeilDiv(t.effort_hours.v,
            Min(Hours(3), Max(Hours(1), t.effort_hours.v \div 3)))

\* the number of blocks placed for the input task i
BlocksFor(i, blocks) == Cardinality({k \in 1..Len(blocks) : blocks[k].task = i})

\* C29: at any time the hours placed for a task are at most its effort_hours
\* and the number of its blocks is at most ceil(effort_hours / optimal_session)
C29_NeverOverScheduled ==
    \A k \in 1..Len(AllBlocks) :
        LET i == AllBlocks[k].task
        IN  /\ PlacedFor(i, AllBlocks) <= tasks[i].effort_hours.v
            /\ BlocksFor(i, AllBlocks) <= NumSessionsOf(tasks[i])

\* lines 197, 221 and 232 for the first session of task t on a day with the
\* given headroom
FirstSession(t, headroom) ==
    Min(Min(Min(Hours(3), Max(Hours(1), t.effort_hours.v \div 3)),
            t.effort_hours.v),
        headroom)

\* lines 218-240 for the first session of the input task i on the day at
\* offset o, among the blocks of the run: the day has half an hour of
\* headroom and a free slot for the clamped session, which is not below
\* min_study_block_minutes
CouldHost(i, o) ==
    LET day == Today + o * SecondsPerDay
        headroom == preferences.max_hours_per_day
                    - _get_day_hours_used(day, schedule_blocks)
        duration == FirstSession(tasks[i], headroom)
    IN  /\ headroom >= HalfHour
        /\ duration >= MinStudyBlock
        /\ _find_free_slot(day, duration, busy_intervals, schedule_blocks).found

\* C30: a schedulable task that is not overdue and has more than half an hour
\* of effort ends the run without a block only if none of the days from today
\* to its due date could host its first session
C30_FirstSessionPlaced ==
    Done =>
        \A k \in NotOverdue :
            LET i == schedulable_tasks[k]
            IN  (tasks[i].effort_hours.v > HalfHour
                 /\ BlocksFor(i, schedule_blocks) = 0)
                => \A o \in 0..DaysUntilDue(tasks[i]) : ~CouldHost(i, o)

=============================================================================
